---------------------------- MODULE Spec2Model ----------------------------
(***************************************************************************)
(* Model of github_contribution_generator.py: the template registry of     *)
(* ContributionGenerator, the image/text/template -> 7x52 intensity grid   *)
(* conversion, the commit-date schedule and the push_to_github flow as it  *)
(* is driven from wizard_mode.                                             *)
(*                                                                         *)
(* Calendar dates are proleptic Gregorian ordinals (date.toordinal()); a   *)
(* timestamp is a record [date, hour, minute].  Seconds and microseconds   *)
(* of datetime.now() are carried unchanged through every computation of    *)
(* generate_commit_dates and are left out.                                 *)
(* Two-dimensional arrays are sequences of rows, 1-indexed; the cell the   *)
(* code calls [day, week] is row day+1, column week+1.                     *)
(***************************************************************************)
EXTENDS Integers, Sequences, FiniteSets, TLC

(* ------------------------------ bounds --------------------------------- *)
\* datetime.now() is drawn from NowSpan consecutive days starting at BaseDay
\* (ordinal 739921 is Sunday 2026-11-01), weeks_ago from -MaxOffset..MaxOffset
BaseDay == 739921
NowSpan == 7
MaxOffset == 1

Nows == BaseDay .. (BaseDay + NowSpan - 1)
Offsets == (0 - MaxOffset) .. MaxOffset

(* ------------------------- program constants --------------------------- *)
GITHUB_WEEKS == 52
GITHUB_DAYS == 7
MAX_INTENSITY == 4

None == "None"
NoGrid == << >>

(* ------------------------- array helpers ------------------------------- *)
Min(a, b) == IF a < b THEN a ELSE b

\* pattern.shape[0], pattern.shape[1] of a rectangular 2-D array
Rows(p) == Len(p)
Cols(p) == Len(p[1])

Zeros(n) == [j \in 1..n |-> 0]

\* np.pad(pattern, ((0, n), (0, 0)), 'constant')
PadRows(p, n) == p \o [i \in 1..n |-> Zeros(Cols(p))]

\* np.pad(pattern, ((0, 0), (0, n)), 'constant')
PadCols(p, n) == [i \in 1..Rows(p) |-> p[i] \o Zeros(n)]

\* pattern[:r, :c]
Slice(p, r, c) ==
    [i \in 1..Min(r, Rows(p)) |-> SubSeq(p[i], 1, Min(c, Cols(p)))]

\* pattern[:, :c]
SliceCols(p, c) == Slice(p, Rows(p), c)

\* a rows x cols array whose cell (r, c), 0-indexed, is f[r][c]
Grid(rows, cols, f(_, _)) ==
    [i \in 1..rows |-> [j \in 1..cols |-> f(i - 1, j - 1)]]

\* np.sum(contribution_matrix > 0), np.sum(contribution_matrix)
RECURSIVE SumSeq(_)
SumSeq(s) == IF s = << >> THEN 0 ELSE Head(s) + SumSeq(Tail(s))

ActiveDays(m) ==
    SumSeq([i \in 1..Len(m) |->
              Cardinality({j \in 1..Len(m[i]) : m[i][j] > 0})])

TotalCommits(m) == SumSeq([i \in 1..Len(m) |-> SumSeq(m[i])])

(* ------------------------- built-in templates -------------------------- *)
Array2D(rows) == [ndim |-> 2, rows |-> rows]
Array1D(items) == [ndim |-> 1, rows |-> items]

\* ContributionGenerator._load_templates
BuiltinTemplates ==
    [n \in {"skull", "heart", "smile", "diamond", "checkmark"} |->
       CASE n = "skull" -> Array2D(<<
              <<0,0,2,2,2,2,0,0>>,
              <<0,2,4,2,2,4,2,0>>,
              <<2,4,4,2,2,4,4,2>>,
              <<2,2,2,4,4,2,2,2>>,
              <<2,4,2,2,2,2,4,2>>,
              <<0,2,4,4,4,4,2,0>>,
              <<0,0,2,2,2,2,0,0>> >>)
         [] n = "heart" -> Array2D(<<
              <<0,2,2,0,2,2,0>>,
              <<2,4,4,2,4,4,2>>,
              <<4,4,4,4,4,4,4>>,
              <<4,4,4,4,4,4,4>>,
              <<2,4,4,4,4,4,2>>,
              <<0,2,4,4,4,2,0>>,
              <<0,0,2,2,2,0,0>> >>)
         [] n = "smile" -> Array2D(<<
              <<0,0,2,2,2,2,0,0>>,
              <<0,2,0,2,2,0,2,0>>,
              <<2,0,4,0,0,4,0,2>>,
              <<2,0,0,0,0,0,0,2>>,
              <<2,0,4,0,0,4,0,2>>,
              <<2,0,0,4,4,0,0,2>>,
              <<0,2,0,0,0,0,2,0>>,
              <<0,0,2,2,2,2,0,0>> >>)
         [] n = "diamond" -> Array2D(<<
              <<0,0,0,2,0,0,0>>,
              <<0,0,2,4,2,0,0>>,
              <<0,2,4,4,4,2,0>>,
              <<2,4,4,4,4,4,2>>,
              <<0,2,4,4,4,2,0>>,
              <<0,0,2,4,2,0,0>>,
              <<0,0,0,2,0,0,0>> >>)
         [] n = "checkmark" -> Array2D(<<
              <<0,0,0,0,0,0,2>>,
              <<0,0,0,0,0,2,4>>,
              <<0,0,0,0,2,4,2>>,
              <<2,0,0,2,4,2,0>>,
              <<4,2,2,4,2,0,0>>,
              <<2,4,4,2,0,0,0>>,
              <<0,2,2,0,0,0,0>> >>)]

(* ------------------------- load_template ------------------------------- *)
\* the body of load_template after the lookup, for a rectangular 2-D
\* pattern: pad the rows, pad or cut the columns, slice to 7 x 52
PadAndSliceKeepRows(pattern) ==
    LET p1 == IF Rows(pattern) < GITHUB_DAYS
              THEN PadRows(pattern, GITHUB_DAYS - Rows(pattern))
              ELSE pattern
        p2 == IF Cols(p1) < GITHUB_WEEKS
              THEN PadCols(p1, GITHUB_WEEKS - Cols(p1))
              ELSE p1
    IN  Slice(p2, GITHUB_DAYS + 1, GITHUB_WEEKS)

PadAndSlice(pattern) ==
    LET p1 == IF Rows(pattern) < GITHUB_DAYS
              THEN PadRows(pattern, GITHUB_DAYS - Rows(pattern))
              ELSE pattern
        p2 == IF Cols(p1) < GITHUB_WEEKS
              THEN PadCols(p1, GITHUB_WEEKS - Cols(p1))
              ELSE IF Cols(p1) > GITHUB_WEEKS
                   THEN SliceCols(p1, GITHUB_WEEKS)
                   ELSE p1
    IN  Slice(p2, GITHUB_DAYS, GITHUB_WEEKS)

(* ------------------ load_and_process_image: quantization --------------- *)
\* img_array = 255 - img_array on a uint8 array
Invert(p) == (255 - p) % 256

\* (img_array / 255.0 * self.MAX_INTENSITY).astype(int): the quotient is
\* non-negative, astype(int) drops the fraction; no value of 0..255 is
\* close enough to a bucket border for the float rounding to matter
NormalizeRound(v) == (v * MAX_INTENSITY + 127) \div 255

Normalize(v) == (v * MAX_INTENSITY) \div 255

Quantize(img) ==
    [i \in 1..Rows(img) |->
       [j \in 1..Cols(img) |-> Normalize(Invert(img[i][j]))]]

(* ------------------------- generate_commit_dates ----------------------- *)
\* datetime.weekday(): Monday is 0, Sunday is 6; ordinal 1 is a Monday
Weekday(d) == (d + 6) % 7

\* lines 325-331: 52 + weeks_ago weeks back, then back to Sunday
StartDateNoWrap(now, offset) ==
    LET start == now - 7 * (52 + offset)
    IN  start - (Weekday(start) + 1)

StartDate(now, offset) ==
    LET start == now - 7 * (52 + offset)
        days_since_sunday == IF Weekday(start) + 1 = 7
                             THEN 0 ELSE Weekday(start) + 1
    IN  start - days_since_sunday

\* lines 343-345: the time of day of commit number commit_num of a cell
CommitTimeSameSlot(commit_date, commit_num) ==
    [date |-> commit_date, hour |-> 9, minute |-> 0]

CommitTime(commit_date, commit_num) ==
    [date   |-> commit_date,
     hour   |-> 9 + ((commit_num * 3) % 14),
     minute |-> (commit_num * 17) % 60]

\* lines 335-346: the commits of one cell
CellCommitsOneEach(start, m, day, week) ==
    IF m[day + 1][week + 1] > 0
    THEN << CommitTime(start + 7 * week + day, 0) >>
    ELSE << >>

CellCommits(start, m, day, week) ==
    LET intensity == m[day + 1][week + 1]
    IN  IF intensity > 0
        THEN [k \in 1..intensity |->
                CommitTime(start + 7 * week + day, k - 1)]
        ELSE << >>

\* line 334: the inner loop over the days of one week
RECURSIVE DayLoop(_, _, _, _)
DayLoop(start, m, week, day) ==
    IF day >= GITHUB_DAYS THEN << >>
    ELSE CellCommits(start, m, day, week) \o DayLoop(start, m, week, day + 1)

\* line 333: the outer loop over the weeks
RECURSIVE WeekLoop(_, _, _)
WeekLoop(start, m, week) ==
    IF week >= GITHUB_WEEKS THEN << >>
    ELSE DayLoop(start, m, week, 0) \o WeekLoop(start, m, week + 1)


(* ------------------------- inputs of the model ------------------------- *)
\* resampled 52x7 luminance images (the result of img.resize at line 258)
White == Grid(GITHUB_DAYS, GITHUB_WEEKS, LAMBDA r, c : 255)
Black == Grid(GITHUB_DAYS, GITHUB_WEEKS, LAMBDA r, c : 0)
Dot   == Grid(GITHUB_DAYS, GITHUB_WEEKS,
              LAMBDA r, c : IF r = 0 /\ c = 0 THEN 100 ELSE 255)
\* row k holds the luminances 52k .. 52k+51 (cut at 255), the rest is white
Ramp(k) == Grid(GITHUB_DAYS, GITHUB_WEEKS,
                LAMBDA r, c : IF r = k THEN Min(255, 52 * k + c) ELSE 255)
Mix   == Grid(GITHUB_DAYS, GITHUB_WEEKS,
              LAMBDA r, c : IF (r + c) % 3 = 0 THEN (37 * r + 5 * c) % 256
                            ELSE 255)

Images == {White, Black, Dot, Mix} \cup {Ramp(k) : k \in 0..4}
WizardImages == {White, Dot, Ramp(3)}

\* template files offered to import_templates: whether open and json.load
\* succeed, whether the top level is a dict, the parsed mapping, and the
\* message printed after a merge (it names the path)
SparseCell(r, c) == IF (3 * r + c) % 5 = 0 THEN 1 + ((r + c) % 4) ELSE 0

File1 == [readable |-> TRUE, isdict |-> TRUE, report |-> "imported f1.json",
          data |-> [n \in {"dot", "blank", "skull"} |->
                      CASE n = "dot"   -> Array2D(<< <<2>> >>)
                        [] n = "blank" -> Array2D(<< <<0, 0>>, <<0, 0>> >>)
                        [] n = "skull" -> Array2D(<< <<4, 0, 1>> >>)]]
File2 == [readable |-> TRUE, isdict |-> TRUE, report |-> "imported f2.json",
          data |-> [n \in {"big", "tall", "wide", "full"} |->
                      CASE n = "big"  -> Array2D(Grid(9, 60, SparseCell))
                        [] n = "tall" -> Array2D(Grid(9, 3, SparseCell))
                        [] n = "wide" -> Array2D(Grid(2, 60, SparseCell))
                        [] n = "full" -> Array2D(Grid(7, 52, SparseCell))]]
File3 == [readable |-> TRUE, isdict |-> TRUE, report |-> "imported f3.json",
          data |-> [n \in {"hot", "dot", "line"} |->
                      CASE n = "hot"  -> Array2D(<< <<6, 5>>, <<0, 1>> >>)
                        [] n = "dot"  -> Array2D(<< <<3>> >>)
                        [] n = "line" -> Array1D(<<1, 2, 3>>)]]
\* a JSON document whose top level is a list, and a file that does not parse
FileList == [readable |-> TRUE, isdict |-> FALSE, report |-> "imported list.json",
             data |-> << >>]
FileBad  == [readable |-> FALSE, isdict |-> FALSE, report |-> "imported bad.json",
             data |-> << >>]

ImportFiles == {File1, File2, File3, FileList, FileBad}

TemplateNames == {"skull", "heart", "smile", "diamond", "checkmark",
                  "dot", "blank", "big", "tall", "wide", "full", "hot",
                  "line", "Skull", "nope"}
Texts == {"", "HI"}
ImagePaths == {"art.png"}

\* the (image_path, text, template) triples the callers pass: exactly one set
Sources ==
    {[image_path |-> None, text |-> None, template |-> n] : n \in TemplateNames}
    \cup {[image_path |-> None, text |-> t, template |-> None] : t \in Texts}
    \cup {[image_path |-> p, text |-> None, template |-> None] : p \in ImagePaths}

\* what the imaging library does with the source: ok is FALSE when no font
\* can be loaded / the file does not decode, img is the resampled image
Renderings(images) == {[ok |-> FALSE, img |-> NoGrid]}
                      \cup {[ok |-> TRUE, img |-> i] : i \in images}

Responses == {"yes", "YES", "Yes", "y", "no", ""}

\* str.lower() on the answers above
Lower(s) == CASE s = "YES" -> "yes"
              [] s = "Yes" -> "yes"
              [] OTHER     -> s

\* Python truthiness of an optional string argument
Truthy(s) == s # None /\ s # ""

(* ------------------------------ state ---------------------------------- *)
VARIABLES
    templates,            \* self.templates: name -> pattern
    exported,             \* the document written by export_templates
    pc,                   \* where the process is
    image_path, text, template, weeks_ago, dry_run,   \* arguments of the call
    img_array,            \* the resampled image before quantization
    contribution_matrix,  \* result of load_and_process_image
    today, start_date,    \* generate_commit_dates: now and the anchor
    commit_dates,         \* result of generate_commit_dates
    out,                  \* the last message printed
    prompted,             \* the confirmation question was asked
    img_obj,              \* wizard_mode: the image of the pop-up preview
    git_checked,          \* push_to_github: check_git_requirements was True
    response,             \* push_to_github: the answer read at line 381
    repo_init, git_log, push_attempted, pushed   \* create_git_repository

registry == <<templates, exported>>
args     == <<image_path, text, template, weeks_ago, dry_run>>
locals   == <<img_array, contribution_matrix, today, start_date, commit_dates,
              img_obj, git_checked, response>>
git      == <<repo_init, git_log, push_attempted, pushed>>
vars     == <<registry, pc, args, locals, out, prompted, git>>

NoArgs == /\ image_path' = None /\ text' = None /\ template' = None
          /\ weeks_ago' = 0 /\ dry_run' = FALSE

NoImage == [kind |-> "none", pixels |-> NoGrid]

NoLocals == /\ img_array' = NoGrid /\ contribution_matrix' = NoGrid
            /\ today' = 0 /\ start_date' = 0 /\ commit_dates' = << >>
            /\ img_obj' = NoImage
            /\ git_checked' = FALSE /\ response' = None

NoGit == /\ repo_init' = FALSE /\ git_log' = << >>
         /\ push_attempted' = FALSE /\ pushed' = FALSE

\* the function returns to the wizard menu: its arguments and locals are
\* gone, the temporary directory is removed
Return == /\ pc' = "menu" /\ NoArgs /\ NoLocals /\ NoGit /\ prompted' = FALSE

Init ==
    /\ templates = BuiltinTemplates
    /\ exported = [written |-> FALSE, data |-> << >>]
    /\ pc = "menu"
    /\ image_path = None /\ text = None /\ template = None
    /\ weeks_ago = 0 /\ dry_run = FALSE
    /\ img_array = NoGrid /\ contribution_matrix = NoGrid
    /\ today = 0 /\ start_date = 0 /\ commit_dates = << >>
    /\ out = ""
    /\ prompted = FALSE
    /\ img_obj = NoImage
    /\ git_checked = FALSE /\ response = None
    /\ repo_init = FALSE /\ git_log = << >>
    /\ push_attempted = FALSE /\ pushed = FALSE

(* ------------------------- template registry --------------------------- *)
\* The JSON text of a pattern as its sequence of tokens: OPEN and CLOSE are
\* the brackets, a number is itself (commas and white space carry nothing)
OPEN == 0 - 1
CLOSE == 0 - 2

RECURSIVE Concat(_)
Concat(seqs) == IF seqs = << >> THEN << >>
                ELSE Head(seqs) \o Concat(Tail(seqs))

\* json.dump of one registry value: a list of lists, or a flat list
JsonDumpValueFlat(v) == <<OPEN>> \o Concat(v.rows) \o <<CLOSE>>

JsonDumpValue(v) ==
    IF v.ndim = 2
    THEN <<OPEN>>
         \o Concat([i \in 1..Len(v.rows) |->
                      <<OPEN>> \o v.rows[i] \o <<CLOSE>>])
         \o <<CLOSE>>
    ELSE <<OPEN>> \o v.rows \o <<CLOSE>>

\* json.dump(self.templates, f): an object, one member per name
JsonDump(d) == [n \in DOMAIN d |-> JsonDumpValue(d[n])]

\* the position of the first CLOSE of a token sequence
FirstClose(s) ==
    CHOOSE i \in 1..Len(s) :
       s[i] = CLOSE /\ \A j \in 1..(i - 1) : s[j] # CLOSE

\* the lists between the outer brackets of a list of lists
RECURSIVE ParseRows(_)
ParseRows(s) ==
    IF s = << >> THEN << >>
    ELSE << SubSeq(s, 2, FirstClose(s) - 1) >>
         \o ParseRows(SubSeq(s, FirstClose(s) + 1, Len(s)))

\* json.load of one value
JsonLoadValue(t) ==
    IF Len(t) > 2 /\ t[2] = OPEN
    THEN Array2D(ParseRows(SubSeq(t, 2, Len(t) - 1)))
    ELSE Array1D(SubSeq(t, 2, Len(t) - 1))

\* json.load(f) of an exported document
JsonLoad(doc) == [n \in DOMAIN doc |-> JsonLoadValue(doc[n])]

\* the file export_templates wrote, offered to import_templates; open
\* fails when nothing was exported
ExportedFile ==
    [readable |-> exported.written, isdict |-> TRUE,
     report |-> "imported export.json",
     data |-> IF exported.written THEN JsonLoad(exported.data) ELSE << >>]

\* dict.update(data) that keeps the entries already present
UpdateKeepExisting(d, data) ==
    [n \in (DOMAIN d) \cup (DOMAIN data) |->
       IF n \in DOMAIN d THEN d[n] ELSE data[n]]

\* dict.update(data)
Update(d, data) ==
    [n \in (DOMAIN d) \cup (DOMAIN data) |->
       IF n \in DOMAIN data THEN data[n] ELSE d[n]]

ImportTemplates(f) ==
    /\ pc = "menu"
    /\ IF ~ f.readable
       THEN /\ out' = "import_error"
            /\ UNCHANGED templates
       ELSE IF ~ f.isdict
            THEN /\ out' = "invalid_format"
                 /\ UNCHANGED templates
            ELSE /\ templates' = Update(templates, f.data)
                 /\ out' = f.report
    /\ UNCHANGED <<exported, pc, args, locals, prompted, git>>

ExportTemplates(ok) ==
    /\ pc = "menu"
    /\ IF ok
       THEN /\ exported' = [written |-> TRUE, data |-> JsonDump(templates)]
            /\ out' = "exported"
       ELSE /\ out' = "export_error"
            /\ UNCHANGED exported
    /\ UNCHANGED <<templates, pc, args, locals, prompted, git>>

\* import_templates of the file export_templates wrote
ImportExportedTemplates == ImportTemplates(ExportedFile)

(* ------------------------- load_and_process_image ---------------------- *)
\* load_template: exit = TRUE is sys.exit(1) (unknown name) or the
\* exception numpy raises on a pattern that is not 2-D, which
\* load_and_process_image turns into sys.exit(1)
LoadTemplate(tpls, name) ==
    IF name \notin DOMAIN tpls
    THEN [exit |-> TRUE, msg |-> "not_found", img |-> NoGrid,
          matrix |-> NoGrid]
    ELSE IF tpls[name].ndim # 2
         THEN [exit |-> TRUE, msg |-> "error_processing", img |-> NoGrid,
               matrix |-> NoGrid]
         ELSE [exit |-> FALSE, msg |-> "", img |-> NoGrid,
               matrix |-> PadAndSlice(tpls[name].rows)]

\* r is what the imaging library does; with neither a template nor a
\* non-empty text the code opens image_path, and Image.open(None) raises
LoadAndProcessImage(tpls, src, r) ==
    IF Truthy(src.template) THEN LoadTemplate(tpls, src.template)
    ELSE IF (Truthy(src.text) \/ Truthy(src.image_path)) /\ r.ok
         THEN [exit |-> FALSE, msg |-> "", img |-> r.img,
               matrix |-> Quantize(r.img)]
         ELSE [exit |-> TRUE, msg |-> "error_processing", img |-> NoGrid,
               matrix |-> NoGrid]

SetArgs(src, offset, dry) ==
    /\ image_path' = src.image_path /\ text' = src.text
    /\ template' = src.template
    /\ weeks_ago' = offset /\ dry_run' = dry

\* preview_contribution_graph up to the statistics
PreviewContributionGraph(src, r) ==
    /\ pc = "menu"
    /\ SetArgs(src, 0, FALSE)
    /\ LET res == LoadAndProcessImage(templates, src, r)
       IN  IF res.exit
           THEN /\ pc' = "exited" /\ out' = res.msg
                /\ UNCHANGED locals
           ELSE /\ pc' = "previewed" /\ out' = "statistics"
                /\ img_array' = res.img
                /\ contribution_matrix' = res.matrix
                /\ UNCHANGED <<today, start_date, commit_dates, img_obj,
                               git_checked, response>>
    /\ UNCHANGED <<registry, prompted, git>>

\* wizard_mode, line 639: (arr / MAX_INTENSITY * 255).astype('uint8').
\* The product is a float; a value above 255 is outside uint8 and the cast
\* is then whatever the platform does: cast is "wrap" or "saturate"
PreviewPixel(v, cast) ==
    LET x == (v * 255) \div MAX_INTENSITY
    IN  IF x <= 255 THEN x
        ELSE IF cast = "wrap" THEN x % 256 ELSE 255

\* wizard_mode, lines 634-644: the answer to the pop-up question was 'y'
ShowImagePreview(cast) ==
    /\ pc = "previewed"
    /\ pc' = "shown"
    /\ img_obj' =
         IF Truthy(template)
         THEN [kind |-> "array",
               pixels |-> [i \in 1..Rows(contribution_matrix) |->
                             [j \in 1..Cols(contribution_matrix) |->
                                PreviewPixel(contribution_matrix[i][j],
                                             cast)]]]
         ELSE [kind |-> "source", pixels |-> NoGrid]
    /\ UNCHANGED <<registry, args, img_array, contribution_matrix, today,
                   start_date, commit_dates, out, prompted, git, git_checked,
                   response>>

PreviewReturn ==
    /\ pc \in {"previewed", "shown"}
    /\ Return
    /\ UNCHANGED <<registry, out>>


(* ------------------------------ push_to_github ------------------------- *)
\* push_to_github, lines 354-358: the git check, then the grid
PushToGithub(src, offset, dry, git_ok, r) ==
    /\ pc = "menu"
    /\ IF ~ git_ok
       THEN /\ out' = "git_required"
            /\ UNCHANGED <<pc, args, locals>>
       ELSE /\ SetArgs(src, offset, dry)
            /\ git_checked' = TRUE
            /\ UNCHANGED <<today, start_date, commit_dates, img_obj,
                           response>>
            /\ LET res == LoadAndProcessImage(templates, src, r)
               IN  IF res.exit
                   THEN /\ pc' = "exited" /\ out' = res.msg
                        /\ UNCHANGED <<img_array, contribution_matrix>>
                   ELSE /\ pc' = "loaded" /\ out' = "generating"
                        /\ img_array' = res.img
                        /\ contribution_matrix' = res.matrix
    /\ UNCHANGED <<registry, prompted, git>>

\* generate_commit_dates, called at line 360; now is datetime.now()
GenerateCommitDatesLater(now) ==
    /\ pc = "loaded"
    /\ today' = now
    /\ start_date' = StartDate(now, 0 - weeks_ago)
    /\ commit_dates' = WeekLoop(StartDate(now, 0 - weeks_ago),
                                contribution_matrix, 0)
    /\ pc' = "generated"
    /\ UNCHANGED <<registry, args, img_array, contribution_matrix, out,
                   prompted, git, img_obj, git_checked, response>>

GenerateCommitDates(now) ==
    /\ pc = "loaded"
    /\ today' = now
    /\ start_date' = StartDate(now, weeks_ago)
    /\ commit_dates' = WeekLoop(StartDate(now, weeks_ago),
                                contribution_matrix, 0)
    /\ pc' = "generated"
    /\ UNCHANGED <<registry, args, img_array, contribution_matrix, out,
                   prompted, git, img_obj, git_checked, response>>

\* lines 361-381: nothing to do, dry run, or the confirmation question
PushDecideAlwaysAsk ==
    /\ pc = "generated"
    /\ pc' = "confirm" /\ out' = "will_create" /\ prompted' = TRUE
    /\ UNCHANGED <<args, locals, git>>
    /\ UNCHANGED registry

PushDecide ==
    /\ pc = "generated"
    /\ IF commit_dates = << >>
       THEN /\ out' = "no_commits"
            /\ Return
       ELSE IF dry_run
            THEN /\ out' = "dry_run"
                 /\ Return
            ELSE /\ pc' = "confirm" /\ out' = "will_create"
                 /\ prompted' = TRUE
                 /\ UNCHANGED <<args, locals, git>>
    /\ UNCHANGED registry

\* lines 381-385: the answer typed at the prompt
ConfirmAnyYes(answer) ==
    /\ pc = "confirm"
    /\ IF Lower(answer) \notin {"yes", "y"}
       THEN /\ out' = "cancelled"
            /\ Return
       ELSE /\ pc' = "create"
            /\ response' = answer
            /\ UNCHANGED <<args, img_array, contribution_matrix, today,
                           start_date, commit_dates, img_obj, git_checked,
                           out, prompted, git>>
    /\ UNCHANGED registry

Confirm(answer) ==
    /\ pc = "confirm"
    /\ IF Lower(answer) # "yes"
       THEN /\ out' = "cancelled"
            /\ Return
       ELSE /\ pc' = "create"
            /\ response' = answer
            /\ UNCHANGED <<args, img_array, contribution_matrix, today,
                           start_date, commit_dates, img_obj, git_checked,
                           out, prompted, git>>
    /\ UNCHANGED registry

\* line 465: commit_date.strftime("%Y-%m-%d %H:%M:%S"), the text handed to
\* git: the fields of the timestamp in the order of the format
DateStr(commit_date) ==
    <<commit_date.date, commit_date.hour, commit_date.minute>>

\* lines 468-475: the commit made in iteration i (message "Art pixel i/n")
Commit(i, commit_date) ==
    [number    |-> i,
     author    |-> DateStr(commit_date),
     committer |-> DateStr(commit_date)]

\* lines 457-475: the log after the first n iterations of the loop
CommitLoopNewestFirst(dates, n) ==
    [i \in 1..n |-> Commit(i, dates[n + 1 - i])]

CommitLoop(dates, n) ==
    [i \in 1..n |-> Commit(i, dates[i])]

\* create_git_repository: setup_ok is the outcome of git init / checkout /
\* remote add, fail_at the index of the first git add/commit that fails
\* (0: none fails), push_ok the return code of git push
CreateGitRepository(setup_ok, fail_at, push_ok) ==
    /\ pc = "create"
    /\ fail_at \in 0..Len(commit_dates)
    /\ pc' = "created"
    /\ IF ~ setup_ok
       THEN /\ repo_init' = FALSE /\ git_log' = << >>
            /\ push_attempted' = FALSE /\ pushed' = FALSE
            /\ out' = "git_failed"
       ELSE IF fail_at > 0
            THEN /\ repo_init' = TRUE
                 /\ git_log' = CommitLoop(commit_dates, fail_at - 1)
                 /\ push_attempted' = FALSE /\ pushed' = FALSE
                 /\ out' = "git_failed"
            ELSE /\ repo_init' = TRUE
                 /\ git_log' = CommitLoop(commit_dates, Len(commit_dates))
                 /\ push_attempted' = TRUE /\ pushed' = push_ok
                 /\ out' = IF push_ok THEN "pushed" ELSE "push_error"
    /\ UNCHANGED <<registry, args, locals, prompted>>

\* push_to_github returns, the TemporaryDirectory is removed
PushReturn ==
    /\ pc = "created"
    /\ Return
    /\ UNCHANGED <<registry, out>>

(* --------------------------- specifications ---------------------------- *)
\* the commit failures tried: none, the first commit, the second
FailPoints == {0, 1, 2}

\* the days the wizard runs are checked on: a Sunday and a Wednesday
WizardNows == {BaseDay, BaseDay + 3}

Next ==
    \/ \E f \in ImportFiles : ImportTemplates(f)
    \/ \E ok \in BOOLEAN : ExportTemplates(ok)
    \/ \E src \in Sources, r \in Renderings(WizardImages) :
          PreviewContributionGraph(src, r)
    \/ \E cast \in {"wrap", "saturate"} : ShowImagePreview(cast)
    \/ PreviewReturn
    \/ \E src \in Sources, offset \in Offsets, dry \in BOOLEAN,
          git_ok \in BOOLEAN, r \in Renderings(WizardImages) :
          PushToGithub(src, offset, dry, git_ok, r)
    \/ \E now \in WizardNows : GenerateCommitDates(now)
    \/ PushDecide
    \/ \E answer \in Responses : Confirm(answer)
    \/ \E setup_ok \in BOOLEAN, fail_at \in FailPoints, push_ok \in BOOLEAN :
          CreateGitRepository(setup_ok, fail_at, push_ok)
    \/ PushReturn

Spec == Init /\ [][Next]_vars

\* a new wizard process: the registry is the built-in one again, the
\* exported file is still on disk
StartProcess ==
    /\ pc \in {"menu", "exited"}
    /\ templates' = BuiltinTemplates
    /\ out' = ""
    /\ Return
    /\ UNCHANGED exported

\* the registry alone: imports (the exported file among them), exports,
\* new processes and lookups by name
NextRegistry ==
    \/ \E f \in ImportFiles : ImportTemplates(f)
    \/ ImportExportedTemplates
    \/ \E ok \in BOOLEAN : ExportTemplates(ok)
    \/ StartProcess
    \/ \E src \in Sources, r \in Renderings({White}) :
          PreviewContributionGraph(src, r)
    \/ PreviewReturn

SpecRegistry == Init /\ [][NextRegistry]_vars

\* generate_commit_dates and the quantization as functions of their inputs:
\* every resampled image of Images, every offset, every day of Nows
InitSchedule ==
    /\ templates = BuiltinTemplates
    /\ exported = [written |-> FALSE, data |-> << >>]
    /\ pc = "resampled"
    /\ image_path = "art.png" /\ text = None /\ template = None
    /\ weeks_ago \in Offsets /\ dry_run = FALSE
    /\ img_array \in Images /\ contribution_matrix = NoGrid
    /\ today = 0 /\ start_date = 0 /\ commit_dates = << >>
    /\ out = ""
    /\ prompted = FALSE
    /\ img_obj = NoImage
    /\ git_checked = FALSE /\ response = None
    /\ repo_init = FALSE /\ git_log = << >>
    /\ push_attempted = FALSE /\ pushed = FALSE

\* load_and_process_image, lines 261-269
QuantizeImage ==
    /\ pc = "resampled"
    /\ contribution_matrix' = Quantize(img_array)
    /\ pc' = "loaded"
    /\ UNCHANGED <<registry, args, img_array, today, start_date,
                   commit_dates, out, prompted, git, img_obj, git_checked,
                   response>>

NextSchedule ==
    \/ QuantizeImage
    \/ \E now \in Nows : GenerateCommitDates(now)

SpecSchedule == InitSchedule /\ [][NextSchedule]_vars


(* ------------------------------ properties ----------------------------- *)
Days  == 0 .. (GITHUB_DAYS - 1)
Weeks == 0 .. (GITHUB_WEEKS - 1)
Levels == 0 .. MAX_INTENSITY

\* contribution_matrix holds the grid of the running call
Loaded == pc \in {"previewed", "loaded", "generated", "confirm", "create",
                  "created"}
\* commit_dates holds the schedule of the running call
Generated == pc \in {"generated", "confirm", "create", "created"}

Cell(d, w) == contribution_matrix[d + 1][w + 1]

IsShape(m, r, c) == Len(m) = r /\ \A i \in 1..r : Len(m[i]) = c

AllCells(m, v) == \A i \in 1..Len(m) : \A j \in 1..Len(m[i]) : m[i][j] = v

InLevels(m) ==
    \A i \in 1..Len(m) : \A j \in 1..Len(m[i]) : m[i][j] \in Levels

EventsOn(date) ==
    {i \in 1..Len(commit_dates) : commit_dates[i].date = date}

\* the number of earlier events of the same calendar date
SubIndex(i) ==
    Cardinality({j \in 1..(i - 1) :
                   commit_dates[j].date = commit_dates[i].date})

Before(a, b) ==
    \/ a.date < b.date
    \/ a.date = b.date /\ a.hour < b.hour
    \/ a.date = b.date /\ a.hour = b.hour /\ a.minute <= b.minute

\* C1: for a 7x52 grid with cells in 0..4 the schedule holds exactly
\* grid[d][w] events dated anchor + 7w + d for every cell (none for a zero
\* cell), so its length is the sum of the cells (Total commits) and its
\* number of distinct dates the number of non-zero cells (Total
\* contribution days)
C1_EventsPerCell ==
    (Generated /\ IsShape(contribution_matrix, GITHUB_DAYS, GITHUB_WEEKS)
               /\ InLevels(contribution_matrix))
    => /\ \A d \in Days : \A w \in Weeks :
            Cardinality(EventsOn(start_date + 7 * w + d)) = Cell(d, w)
       /\ Len(commit_dates) = TotalCommits(contribution_matrix)
       /\ Cardinality({commit_dates[i].date : i \in 1..Len(commit_dates)})
            = ActiveDays(contribution_matrix)

C1_Witness ==
    /\ pc = "generated"
    /\ InLevels(contribution_matrix)
    /\ \E d \in Days : \E w \in Weeks : Cell(d, w) = 0
    /\ \E d \in Days : \E w \in Weeks : Cell(d, w) = 3
    /\ Len(commit_dates) > ActiveDays(contribution_matrix)
    /\ weeks_ago # 0

\* C2: the k-th event of a cell is at hour 9 + (3k mod 14), minute
\* 17k mod 60; the first four of a cell differ pairwise in (hour, minute);
\* the grid whose only non-zero cell is (0, 0) = 2 gives exactly two events
\* on the anchor's date, at 09:00 and then 12:17
C2_TimeOfDay ==
    Generated
    => /\ \A i \in 1..Len(commit_dates) :
            LET k == SubIndex(i)
            IN  /\ commit_dates[i].hour = 9 + ((3 * k) % 14)
                /\ commit_dates[i].minute = (17 * k) % 60
       /\ \A i \in 1..Len(commit_dates) : \A j \in 1..Len(commit_dates) :
            (/\ i # j
             /\ commit_dates[i].date = commit_dates[j].date
             /\ SubIndex(i) <= 3 /\ SubIndex(j) <= 3)
            => <<commit_dates[i].hour, commit_dates[i].minute>>
                 # <<commit_dates[j].hour, commit_dates[j].minute>>
       /\ (/\ Cell(0, 0) = 2
           /\ \A d \in Days : \A w \in Weeks :
                (d # 0 \/ w # 0) => Cell(d, w) = 0)
          => commit_dates =
               << [date |-> start_date, hour |-> 9, minute |-> 0],
                  [date |-> start_date, hour |-> 12, minute |-> 17] >>

C2_Witness ==
    /\ pc = "generated"
    /\ Cell(0, 0) = 2
    /\ Len(commit_dates) = 2
    /\ commit_dates[2].hour = 12


\* C3: for every grid passed to generate_commit_dates the events come
\* week-ascending, day-ascending within a week, sub-index-ascending within
\* a cell, and their timestamps never decrease along the sequence
C3_Chronological ==
    Generated
    => \A i \in 1..(Len(commit_dates) - 1) :
          /\ commit_dates[i].date <= commit_dates[i + 1].date
          /\ Before(commit_dates[i], commit_dates[i + 1])

\* ordinal 7 (0001-01-07) is a Sunday
IsSunday(date) == date % 7 = 0

\* C4: the anchor is a Sunday, the latest one not after now - (52 + offset)
\* weeks (0..6 days before it), and that day itself when it is a Sunday
C4_AnchorIsSunday ==
    Generated
    => LET moment == today - 7 * (52 + weeks_ago)
       IN  /\ IsSunday(start_date)
           /\ moment - start_date \in 0..6
           /\ \A s \in (start_date + 1)..moment : ~ IsSunday(s)
           /\ IsSunday(moment) => start_date = moment

C4_Witness ==
    /\ pc = "generated"
    /\ weeks_ago < 0
    /\ today - 7 * (52 + weeks_ago) - start_date = 6

\* C5: load_template turns an R x C template into a 7x52 grid that equals
\* the template on the first min(R,7) rows and min(C,52) columns and is 0
\* everywhere else
C5_PadTruncate ==
    (Loaded /\ Truthy(template))
    => LET pattern == templates[template].rows
       IN  /\ IsShape(contribution_matrix, GITHUB_DAYS, GITHUB_WEEKS)
           /\ \A d \in Days : \A w \in Weeks :
                Cell(d, w) = IF d < Rows(pattern) /\ w < Cols(pattern)
                             THEN pattern[d + 1][w + 1]
                             ELSE 0

C5_Witness ==
    /\ pc = "loaded"
    /\ template = "big"
    /\ Rows(templates["big"].rows) = 9
    /\ Cols(templates["big"].rows) = 60
    /\ templates["big"].rows[8][5] # 0
    /\ templates["big"].rows[4][57] # 0
    /\ Cell(3, 51) = templates["big"].rows[4][52]
    /\ Cell(3, 51) # 0
    /\ Cell(6, 47) # 0

\* C6: on the image/text path a luminance p becomes floor((255 - p) * 4 /
\* 255): every cell is in 0..4, white gives all 0, black gives all 4, and a
\* darker pixel never gets a lower intensity than a lighter one
C6_Quantization ==
    (Loaded /\ ~ Truthy(template))
    => /\ IsShape(contribution_matrix, GITHUB_DAYS, GITHUB_WEEKS)
       /\ \A d \in Days : \A w \in Weeks :
            LET p == img_array[d + 1][w + 1]
                q == Cell(d, w)
            IN  /\ q \in Levels
                /\ 255 * q <= (255 - p) * 4
                /\ (255 - p) * 4 < 255 * (q + 1)
                /\ \A d2 \in Days : \A w2 \in Weeks :
                     img_array[d2 + 1][w2 + 1] <= p => Cell(d2, w2) >= q
       /\ AllCells(img_array, 255) => AllCells(contribution_matrix, 0)
       /\ AllCells(img_array, 0) => AllCells(contribution_matrix, 4)

C6_Witness ==
    /\ pc = "loaded"
    /\ \E w \in Weeks :
          /\ img_array[4][w + 1] = 191 /\ Cell(3, w) = 1
          /\ img_array[4][w + 2] = 192 /\ Cell(3, w + 1) = 0

\* C7: the grid load_and_process_image returns for a registered template
\* name has shape (7, 52) and every cell in 0..4
C7_RegisteredGridInRange ==
    (Loaded /\ Truthy(template) /\ template \in DOMAIN templates)
    => /\ IsShape(contribution_matrix, GITHUB_DAYS, GITHUB_WEEKS)
       /\ InLevels(contribution_matrix)

\* C8: every registered template is a grid of at most 7 rows and at most 52
\* columns with integer values in 0..4
C8_RegistryWellFormed ==
    \A n \in DOMAIN templates :
       /\ templates[n].ndim = 2
       /\ Rows(templates[n].rows) <= GITHUB_DAYS
       /\ Cols(templates[n].rows) <= GITHUB_WEEKS
       /\ InLevels(templates[n].rows)

\* C9: an all-zero grid gives an empty schedule, and push_to_github then
\* reports that there is nothing to commit and returns: no confirmation
\* question, no repository, no commit, no push
C9_EmptyScheduleIsNoOp ==
    [][(pc = "generated" /\ AllCells(contribution_matrix, 0))
       => /\ commit_dates = << >>
          /\ out' = "no_commits"
          /\ pc' = "menu"
          /\ ~ prompted'
          /\ ~ repo_init' /\ git_log' = << >>
          /\ ~ push_attempted' /\ ~ pushed']_vars

C9_Witness ==
    /\ pc = "menu"
    /\ out = "no_commits"
    /\ ~ prompted
    /\ ~ repo_init /\ ~ push_attempted

\* C10: the empty text is a legal source: the call does not end the process
\* and yields a blank (all-zero) grid
C10_EmptyTextIsLegal ==
    (text = "" /\ image_path = None /\ template = None)
    => /\ pc # "exited"
       /\ Loaded
       /\ AllCells(contribution_matrix, 0)


\* the files import_templates can be given in the current state
FilesNow == ImportFiles \cup {ExportedFile}

\* C11: import_templates is an atomic additive merge: a failed import
\* (unreadable or unparseable file, top level not a mapping) leaves the
\* registry as it was; a successful one maps every imported name to its
\* imported pattern and keeps every other entry; the registry never changes
\* in any other way within a process
C11_AtomicMerge ==
    [][/\ (pc = "menu" /\ out' \in {"import_error", "invalid_format"})
          => templates' = templates
       /\ \A f \in FilesNow :
            (pc = "menu" /\ out' = f.report)
            => /\ f.readable /\ f.isdict
               /\ DOMAIN templates' = (DOMAIN templates) \cup (DOMAIN f.data)
               /\ \A n \in DOMAIN f.data : templates'[n] = f.data[n]
               /\ \A n \in (DOMAIN templates) \ (DOMAIN f.data) :
                    templates'[n] = templates[n]
       /\ (templates' # templates)
          => \/ \E f \in FilesNow : pc = "menu" /\ out' = f.report
             \/ templates' = BuiltinTemplates /\ out' = ""]_vars

C11_Witness ==
    /\ pc = "menu"
    /\ out = "imported f3.json"
    /\ templates["dot"].rows = << <<3>> >>
    /\ templates["skull"].rows = << <<4, 0, 1>> >>
    /\ templates["heart"] = BuiltinTemplates["heart"]
    /\ "big" \notin DOMAIN templates

\* C12: exporting leaves the registry unchanged and writes a document that
\* reads back as exactly the registry; importing the exported document
\* gives, for every exported name, the pattern that was exported
C12_ExportImportRoundTrip ==
    [][/\ (pc = "menu" /\ pc' = "menu" /\ out' = "exported")
          => /\ templates' = templates
             /\ exported'.written
             /\ JsonLoad(exported'.data) = templates
       /\ (pc = "menu" /\ out' = "imported export.json")
          => \A n \in DOMAIN exported.data :
                /\ n \in DOMAIN templates'
                /\ JsonDumpValue(templates'[n]) = exported.data[n]]_vars

C12_Witness ==
    /\ pc = "menu"
    /\ out = "imported export.json"
    /\ exported.written
    /\ DOMAIN exported.data = DOMAIN templates
    /\ {"big", "line", "dot", "smile"} \subseteq DOMAIN templates
    /\ templates["big"].rows[9][57] = 1
    /\ templates["skull"].rows = << <<4, 0, 1>> >>

\* C13: load_template finds the name by exact, case-sensitive match: a
\* registered name yields that template's grid; any other name ends the
\* invocation with the not-found failure, without a grid, and the registry
\* stays as it was
C13_LookupByExactName ==
    /\ [](Truthy(template)
          => IF template \in DOMAIN templates
             THEN /\ Loaded
                  /\ IsShape(contribution_matrix, GITHUB_DAYS, GITHUB_WEEKS)
             ELSE /\ pc = "exited"
                  /\ out = "not_found"
                  /\ contribution_matrix = NoGrid)
    /\ [][Truthy(template') => templates' = templates]_vars


\* C14: the grayscale preview image of an intensity grid shows intensity 0
\* as white (255) and intensity 4 as black (0), never lighter for a higher
\* intensity, and quantizing it gives the grid back
C14_PreviewImageInverse ==
    (pc = "shown" /\ img_obj.kind = "array" /\ InLevels(contribution_matrix))
    => \A d \in Days : \A w \in Weeks :
          LET pixel == img_obj.pixels[d + 1][w + 1]
          IN  /\ Cell(d, w) = 0 => pixel = 255
              /\ Cell(d, w) = MAX_INTENSITY => pixel = 0
              /\ \A d2 \in Days : \A w2 \in Weeks :
                    Cell(d2, w2) >= Cell(d, w)
                    => img_obj.pixels[d2 + 1][w2 + 1] <= pixel
              /\ Normalize(Invert(pixel)) = Cell(d, w)

\* the timestamp git reads back from a date text
ParseDate(date_str) ==
    [date |-> date_str[1], hour |-> date_str[2], minute |-> date_str[3]]

\* C15: create_git_repository makes the commits in the order of the
\* schedule, the i-th commit dated (author and committer) with the i-th
\* timestamp; the push is attempted only after a commit for every scheduled
\* event exists, and a failed git step means no push
C15_CommitPerEventThenPush ==
    /\ pc = "created" =>
          /\ Len(git_log) <= Len(commit_dates)
          /\ \A i \in 1..Len(git_log) :
                /\ git_log[i].number = i
                /\ ParseDate(git_log[i].author) = commit_dates[i]
                /\ ParseDate(git_log[i].committer) = commit_dates[i]
          /\ push_attempted => repo_init /\ Len(git_log) = Len(commit_dates)
          /\ out = "git_failed" => ~ push_attempted
          /\ out \in {"git_failed", "pushed", "push_error"}
          /\ (out = "pushed") = pushed
    /\ pushed => push_attempted
    /\ push_attempted => pc = "created"

C15_Witness ==
    /\ pc = "created" /\ push_attempted /\ pushed
    /\ Len(git_log) = Len(commit_dates)
    /\ Len(git_log) >= 2
    /\ git_log[1].author # git_log[Len(git_log)].author

\* a run whose second commit failed: one commit exists, nothing was pushed
C15_FailedCommit ==
    /\ pc = "created" /\ out = "git_failed" /\ repo_init
    /\ Len(git_log) = 1 /\ Len(commit_dates) >= 2

\* something was done with git: a repository, a commit or a push
GitEffects == repo_init \/ git_log # << >> \/ push_attempted \/ pushed

\* C16: create_git_repository is reached only after the git check
\* succeeded, the schedule was found non-empty, dry_run was found false and
\* the answer was 'yes' in any letter case, in this order; a run that ends
\* at one of these checks makes no repository, no commit and no push
C16_CreateOnlyAfterAllChecks ==
    /\ [](/\ pc \in {"create", "created"} =>
                /\ git_checked /\ commit_dates # << >> /\ ~ dry_run
                /\ prompted
                /\ response \in {"yes", "YES", "Yes"}
          /\ prompted => git_checked /\ commit_dates # << >> /\ ~ dry_run
          /\ pc \in {"loaded", "generated", "confirm"} => git_checked
          /\ GitEffects => pc = "created")
    /\ [][/\ pc' = "create" => pc = "confirm"
          /\ (pc = "menu" /\ out' = "git_required") =>
                pc' = "menu" /\ ~ git_checked' /\ ~ GitEffects'
          /\ (pc = "generated" /\ out' = "no_commits") =>
                commit_dates = << >> /\ pc' = "menu" /\ ~ GitEffects'
          /\ (pc = "generated" /\ out' = "dry_run") =>
                /\ commit_dates # << >> /\ dry_run
                /\ pc' = "menu" /\ ~ GitEffects'
          /\ (pc = "confirm" /\ pc' = "menu") =>
                out' = "cancelled" /\ ~ GitEffects'
          /\ (pc = "generated" /\ pc' = "confirm") =>
                commit_dates # << >> /\ ~ dry_run]_vars

C16_Witness ==
    /\ pc = "created" /\ response = "YES" /\ git_checked /\ prompted
    /\ commit_dates # << >> /\ ~ dry_run
    /\ repo_init /\ git_log # << >>

\* C17: with a week offset >= 0 every timestamp of the schedule is dated
\* from the anchor to the anchor + 363 days and before today: nothing is
\* dated today or in the future
C17_NoEventInTheFuture ==
    (Generated /\ weeks_ago >= 0) =>
       \A i \in 1..Len(commit_dates) :
          /\ start_date <= commit_dates[i].date
          /\ commit_dates[i].date <= start_date + 363
          /\ commit_dates[i].date < today

C17_Witness ==
    /\ pc = "generated" /\ weeks_ago = 0 /\ commit_dates # << >>
    /\ commit_dates[1].date = start_date
    /\ commit_dates[Len(commit_dates)].date = start_date + 363
    /\ commit_dates[Len(commit_dates)].date = today - 1

\* a negative offset: an event dated after today
C17_NegativeOffsetFuture ==
    /\ pc = "generated" /\ weeks_ago < 0
    /\ \E i \in 1..Len(commit_dates) : commit_dates[i].date > today

=============================================================================
